---- MODULE Spec2Model ----
(***************************************************************************)
(* NFA to DFA conversion engine (NFAConverter) of                          *)
(* app/static/js/canvas/draggable_canvas.js, as a state machine.           *)
(*                                                                         *)
(* A state label such as '1,2' is represented by the sequence of its       *)
(* comma-separated fields, <<"1", "2">>: join(',') builds that sequence    *)
(* and split(',') reads it back.  The empty subset is the label 'Ø',       *)
(* <<"Ø">>.  A transition entry, [label] in the code, is the label it      *)
(* holds; an entry that is still undefined is NoTarget.                    *)
(***************************************************************************)
EXTENDS Naturals, Sequences, FiniteSets, TLC

\* ------------------------------------------------------------------ bounds

\* At most this many edges (symbol edges and epsilon edges) in a source NFA.
MaxEdges == 3

\* Input strings of the language checks have at most this many symbols.
MaxLen == 3

\* ------------------------------------------------- the source NFAs (inputs)

\* The converter is run on every NFA with the states 1 and 2 (1 the start
\* state), the alphabet a, b, any set of accept states and at most MaxEdges
\* edges, epsilon edges included.

NFAStateNames == <<"1", "2">>

NFAAlphabet == <<"a", "b">>

\* Every source NFA starts in its first state.
NFAStartState == "1"

Epsilon == "eps"

EmptyName == "Ø"

EmptyLabel == <<EmptyName>>

NoTarget == <<>>

Range(seq) == { seq[i] : i \in DOMAIN seq }

Includes(seq, e) == e \in Range(seq)

\* JavaScript's default sort() compares strings by code unit: digits come
\* before 'Ø' (U+00D8).
NameRank(n) == IF n = EmptyName THEN Len(NFAStateNames) + 1
               ELSE CHOOSE i \in DOMAIN NFAStateNames : NFAStateNames[i] = n

RECURSIVE SetToSeq(_)
SetToSeq(S) ==
    IF S = {} THEN <<>>
    ELSE LET e == CHOOSE e \in S : TRUE IN <<e>> \o SetToSeq(S \ {e})

\* [...new Set(list)].sort() : the distinct members, sorted.
SortedDistinct(list) ==
    SortSeq(SetToSeq(Range(list)), LAMBDA x, y : NameRank(x) < NameRank(y))

\* [...new Set(list)] : the first occurrence of each member, in order.
RECURSIVE Distinct(_)
Distinct(list) ==
    IF list = <<>> THEN <<>>
    ELSE LET front == Distinct(SubSeq(list, 1, Len(list) - 1))
             e == list[Len(list)]
         IN IF Includes(front, e) THEN front ELSE Append(front, e)

\* An edge slot of a source NFA: <<from, symbol or Epsilon, to>>.
EdgeSlots ==
    { <<p, x, q>> : p \in Range(NFAStateNames),
                    x \in Range(NFAAlphabet) \cup {Epsilon},
                    q \in Range(NFAStateNames) } \
    { <<p, Epsilon, p>> : p \in Range(NFAStateNames) }

\* The source NFAs: FSA values over NFAStateNames and NFAAlphabet.
NFAs ==
    { [states |-> NFAStateNames, alphabet |-> NFAAlphabet, edges |-> E,
       startState |-> NFAStartState, acceptStates |-> F] :
        E \in { E \in SUBSET EdgeSlots : Cardinality(E) <= MaxEdges },
        F \in SUBSET Range(NFAStateNames) }

\* ------------------------------------------------------ FSA (collaborator)

\* fsa.clone(): an independent deep copy; values carry no identity here.
clone(fsa) == fsa

\* nfa.getEpsilonClosureStates(state): the states reachable from state by
\* epsilon edges alone, state included.
RECURSIVE EpsClosure(_, _)
EpsClosure(nfa, S) ==
    LET T == S \cup { e[3] : e \in { e \in nfa.edges : e[1] \in S /\ e[2] = Epsilon } }
    IN IF T = S THEN S ELSE EpsClosure(nfa, T)

getEpsilonClosureStates(nfa, state) == EpsClosure(nfa, {state})

\* nfa.getReachableStates(state, symbol): the states reached from state by one
\* symbol, epsilon closure folded in; ['Ø'] when there is none.
getReachableStates(nfa, state, symbol) ==
    LET direct == { e[3] : e \in { e \in nfa.edges : e[1] = state /\ e[2] = symbol } }
        closed == EpsClosure(nfa, direct)
    IN IF closed = {} THEN <<EmptyName>> ELSE SortedDistinct(SetToSeq(closed))

\* nfa.getPowersetOfStates(): every subset of the NFA's states as a sorted
\* member list, the empty subset ['Ø'] first: Ø, 1, 2, 1,2 for states 1, 2.
RECURSIVE SubsetsUpTo(_, _)
SubsetsUpTo(names, i) ==
    IF i = 0 THEN << <<>> >>
    ELSE LET before == SubsetsUpTo(names, i - 1)
         IN before \o [k \in DOMAIN before |-> Append(before[k], names[i])]

getPowersetOfStates(nfa) ==
    LET all == SubsetsUpTo(nfa.states, Len(nfa.states))
    IN [k \in DOMAIN all |-> IF all[k] = <<>> THEN EmptyLabel ELSE all[k]]

\* fsa.removeState(label): drops the state, its accept entry and its
\* transition row; transitions of other states are not rewritten.
removeState(fsa, label) ==
    [fsa EXCEPT
        !.states = SelectSeq(fsa.states, LAMBDA s : s # label),
        !.acceptStates = SelectSeq(fsa.acceptStates, LAMBDA s : s # label),
        !.transitions = [s \in DOMAIN fsa.transitions \ {label} |-> fsa.transitions[s]]]

\* fsa.mergeStates(a, b): a is the representative; every transition that
\* pointed to b points to a, and a accepts iff a or b did.
mergeStates(fsa, a, b) ==
    LET keep == DOMAIN fsa.transitions \ {b}
        accepts == Includes(fsa.acceptStates, a) \/ Includes(fsa.acceptStates, b)
        others == SelectSeq(fsa.acceptStates, LAMBDA s : s # a /\ s # b)
    IN [fsa EXCEPT
        !.states = SelectSeq(fsa.states, LAMBDA s : s # b),
        !.acceptStates = IF accepts THEN <<a>> \o others ELSE others,
        !.startState = IF fsa.startState = b THEN a ELSE fsa.startState,
        !.transitions =
            [s \in keep |->
                [x \in DOMAIN fsa.transitions[s] |->
                    IF fsa.transitions[s][x] = b THEN a ELSE fsa.transitions[s][x]]]]

\* ------------------------------------------------------------ NFAConverter

\* JavaScript's undefined, for the automaton, a step descriptor or a result.
Undefined == [undefined |-> TRUE]

\* this.unreachableStates / this.redundantStates: undefined until computed.
NotComputed == [computed |-> FALSE]

Computed(list) == [computed |-> TRUE, list |-> list]

\* What stepForward() returns when there is nothing to do: [undefined, undefined].
EmptyResult == [dfa |-> Undefined, step |-> Undefined]

\* Object identity. this.dfa and the automaton of every step in this.steps are
\* references to FSA objects: dfaRef names the object this.dfa refers to,
\* stepRefs[i] the object steps[i][0] refers to. Two references with the same
\* name are the same object, so a write through one is seen through the other.
NoObject == 0

\* new NFAConverter(nfa)
NewConverter(n) ==
    [nfa |-> n,
     dfa |-> Undefined,
     steps |-> <<>>,
     state_index |-> 0,
     alphabet_index |-> 0,
     unreachableStates |-> NotComputed,
     redundantStates |-> NotComputed,
     ret |-> Undefined,
     dfaRef |-> NoObject,
     stepRefs |-> <<>>]

\* this.dfa.states[i], this.dfa.alphabet[i]: JavaScript indexes from 0.
At(seq, i) == seq[i + 1]

\* The name given to a newly allocated FSA object: one no live reference has.
FreshRef(self) ==
    LET live == Range(self.stepRefs) \cup {self.dfaRef}
    IN CHOOSE r \in 1..(Cardinality(live) + 1) : r \notin live

\* A step that logs this.dfa itself instead of a copy of it.
shareWorking(self) == [dfa |-> self.dfa, ref |-> self.dfaRef]

\* this.dfa.clone() as the first element of a step: a new object with the
\* value of this.dfa.
cloneWorking(self) == [dfa |-> clone(self.dfa), ref |-> FreshRef(self)]

\* this.steps.push(step) for the step [snapshot, descriptor]; the call
\* returns that step.
pushStep(self, snapshot, descriptor) ==
    LET step == [dfa |-> snapshot.dfa, step |-> descriptor]
    IN [self EXCEPT !.steps = Append(self.steps, step),
                    !.stepRefs = Append(self.stepRefs, snapshot.ref),
                    !.ret = step]

\* An in-place change of the object this.dfa refers to: every step whose
\* automaton is that object changes with it.
mutateWorking(self, newDFA) ==
    IF self.dfaRef \notin Range(self.stepRefs)
    THEN [self EXCEPT !.dfa = newDFA]
    ELSE [self EXCEPT !.dfa = newDFA,
                      !.steps = [i \in DOMAIN self.steps |->
                                    IF self.stepRefs[i] = self.dfaRef
                                    THEN [self.steps[i] EXCEPT !.dfa = newDFA]
                                    ELSE self.steps[i]]]

\* The step a call returns is the array it pushed last, as it is now.
returnLastStep(self) == [self EXCEPT !.ret = self.steps[Len(self.steps)]]

\* A filter that does not keep the start state out of the unreachable states.
nodesWithoutIncomingEdgesAtAll(tempDFA) ==
    SelectSeq(tempDFA.states,
              LAMBDA s : \A p \in Range(tempDFA.states) \X Range(tempDFA.alphabet) :
                            tempDFA.transitions[p[1]][p[2]] = p[1]
                            \/ tempDFA.transitions[p[1]][p[2]] # s)

\* getUnreachableStates: the states of tempDFA, other than the start state,
\* that no transition from another state leads to.
nodesWithoutIncomingEdges(tempDFA) ==
    LET \* the end nodes of all transitions that do not lead back to their state
        nodesWithIncomingEdges ==
            { tempDFA.transitions[p[1]][p[2]] :
                p \in { p \in Range(tempDFA.states) \X Range(tempDFA.alphabet) :
                            tempDFA.transitions[p[1]][p[2]] # p[1] } }
    IN SelectSeq(tempDFA.states,
                 LAMBDA s : s \notin nodesWithIncomingEdges /\ s # tempDFA.startState)

\* getUnreachableStates: nodesWithoutIncomingEdges.forEach(n => tempDFA.removeState(n))
RECURSIVE removeStates(_, _)
removeStates(fsa, ns) ==
    IF ns = <<>> THEN fsa ELSE removeStates(removeState(fsa, Head(ns)), Tail(ns))

\* A search that concatenates the running list with the result of the
\* recursive call and removes no duplicates.
RECURSIVE getUnreachableStatesRepeating(_, _)
getUnreachableStatesRepeating(tempDFA, list) ==
    LET nodes == nodesWithoutIncomingEdges(tempDFA)
    IN IF Len(nodes) > 0
       THEN list \o nodes \o getUnreachableStatesRepeating(removeStates(tempDFA, nodes),
                                                             list \o nodes)
       ELSE list

\* getUnreachableStates(tempDFA, list)
RECURSIVE getUnreachableStatesRec(_, _)
getUnreachableStatesRec(tempDFA, list) ==
    LET nodes == nodesWithoutIncomingEdges(tempDFA)
    IN IF Len(nodes) > 0
       THEN Distinct(getUnreachableStatesRec(removeStates(tempDFA, nodes), list \o nodes))
       ELSE Distinct(list)

\* getUnreachableStates() on this.dfa
getUnreachableStates(self) == getUnreachableStatesRec(clone(self.dfa), <<>>)

\* The redundancy test of getRedundantStates for the ordered pair (s1, s2).
IsRedundantPair(tempDFA, s1, s2) ==
    /\ Includes(tempDFA.acceptStates, s1) <=> Includes(tempDFA.acceptStates, s2)
    /\ \A x \in Range(tempDFA.alphabet) :
        ~ \/ (tempDFA.transitions[s1][x] # s1 /\ tempDFA.transitions[s1][x] # s2)
          \/ (tempDFA.transitions[s2][x] # s2 /\ tempDFA.transitions[s2][x] # s1)

\* The first pair (s1, s2) the two nested loops of getRedundantStates find
\* redundant, <<>> when they find none.
firstRedundantPair(tempDFA) ==
    LET n == Len(tempDFA.states)
        found == { p \in (1..n) \X (1..n) :
                    /\ p[1] # p[2]
                    /\ IsRedundantPair(tempDFA, tempDFA.states[p[1]], tempDFA.states[p[2]]) }
        first == CHOOSE p \in found :
                    \A q \in found : p[1] < q[1] \/ (p[1] = q[1] /\ p[2] <= q[2])
    IN IF found = {} THEN <<>>
       ELSE <<tempDFA.states[first[1]], tempDFA.states[first[2]]>>

\* A getRedundantStates that stops at the first pair instead of searching on.
getRedundantStatesFirstOnly(tempDFA, list) ==
    LET pair == firstRedundantPair(tempDFA)
    IN IF pair = <<>> THEN list ELSE Append(list, pair)

\* getRedundantStates(tempDFA, list)
RECURSIVE getRedundantStatesRec(_, _)
getRedundantStatesRec(tempDFA, list) ==
    LET pair == firstRedundantPair(tempDFA)
    IN IF pair = <<>> THEN list
       ELSE getRedundantStatesRec(mergeStates(tempDFA, pair[1], pair[2]), Append(list, pair))

\* getRedundantStates() on this.dfa
getRedundantStates(self) == getRedundantStatesRec(clone(self.dfa), <<>>)

\* A state_index test that stops one state short.
hasTransitionsLeftShort(self) == self.state_index < Len(self.dfa.states) - 1

\* getNextStep's test that transitions are still to be generated.
hasTransitionsLeft(self) == self.state_index < Len(self.dfa.states)

\* A getNextStep that looks for unreachable states before it looks for
\* transitions still to be generated.
getNextStepPruningFirst(self) ==
    IF self.dfa = Undefined THEN [self |-> self, kind |-> "initialize"]
    ELSE LET s1 == IF ~self.unreachableStates.computed
                   THEN [self EXCEPT !.unreachableStates = Computed(getUnreachableStates(self))]
                   ELSE self
         IN IF Len(s1.unreachableStates.list) > 0
            THEN [self |-> s1, kind |-> "delete_state"]
            ELSE IF hasTransitionsLeft(s1)
            THEN [self |-> s1, kind |-> "add_transition"]
            ELSE LET s2 == IF ~s1.redundantStates.computed
                           THEN [s1 EXCEPT !.redundantStates = Computed(getRedundantStates(s1))]
                           ELSE s1
                 IN IF Len(s2.redundantStates.list) > 0
                    THEN [self |-> s2, kind |-> "merge_states"]
                    ELSE [self |-> s2, kind |-> "none"]

\* getNextStep(): the kind of the next step, "none" for no kind (undefined),
\* with the converter as the call leaves it (the pending lists are computed
\* on first use).
getNextStep(self) ==
    IF self.dfa = Undefined THEN [self |-> self, kind |-> "initialize"]
    ELSE IF hasTransitionsLeft(self)
    THEN [self |-> self, kind |-> "add_transition"]
    ELSE LET s1 == IF ~self.unreachableStates.computed
                   THEN [self EXCEPT !.unreachableStates = Computed(getUnreachableStates(self))]
                   ELSE self
         IN IF Len(s1.unreachableStates.list) > 0
            THEN [self |-> s1, kind |-> "delete_state"]
            ELSE LET s2 == IF ~s1.redundantStates.computed
                           THEN [s1 EXCEPT !.redundantStates = Computed(getRedundantStates(s1))]
                           ELSE s1
                 IN IF Len(s2.redundantStates.list) > 0
                    THEN [self |-> s2, kind |-> "merge_states"]
                    ELSE [self |-> s2, kind |-> "none"]

\* A start state that leaves out what the NFA start state reaches by epsilon.
initialStartStateAlone(self) == <<self.nfa.startState>>

\* initializeDFA's start state: the states reachable from the NFA start state
\* by epsilon, distinct, sorted and joined.
initialStartState(self) ==
    SortedDistinct(SetToSeq(getEpsilonClosureStates(self.nfa, self.nfa.startState)))

\* initializeDFA()
initializeDFA(self) ==
    LET powerset == getPowersetOfStates(self.nfa)
        states == powerset
        transitions == [s \in Range(states) |-> [e \in Range(self.nfa.alphabet) |-> NoTarget]]
        startState == initialStartState(self)
        acceptStates ==
            SelectSeq(powerset, LAMBDA e : \E s \in self.nfa.acceptStates : Includes(e, s))
        dfa == [states |-> states, alphabet |-> self.nfa.alphabet,
                transitions |-> transitions, startState |-> startState,
                acceptStates |-> acceptStates]
        created == [self EXCEPT !.dfa = dfa, !.dfaRef = FreshRef(self)]
    IN pushStep(created, cloneWorking(created), [type |-> "initialize"])

\* A concatenation that looks at the first member of the state label only.
reachableFromFirstMember(self, members, symbol) ==
    getReachableStates(self.nfa, Head(members), symbol)

\* addNextTransition's concatenation of the states reachable from every
\* member of the state label (state.split(',')).
RECURSIVE reachableFromMembers(_, _, _)
reachableFromMembers(self, members, symbol) ==
    IF members = <<>> THEN <<>>
    ELSE getReachableStates(self.nfa, Head(members), symbol)
            \o reachableFromMembers(self, Tail(members), symbol)

\* A transition that keeps Ø among the states reached.
NextTransitionTargetKeepingEmpty(self, state, symbol) ==
    IF self.state_index = 0 THEN EmptyLabel
    ELSE SortedDistinct(reachableFromMembers(self, state, symbol))

\* The transition addNextTransition writes for the state at state_index.
NextTransitionTarget(self, state, symbol) ==
    IF self.state_index = 0 THEN EmptyLabel
    ELSE LET reachableStates == SortedDistinct(reachableFromMembers(self, state, symbol))
         IN IF \E e \in Range(reachableStates) : e # EmptyName
            THEN SelectSeq(reachableStates, LAMBDA e : e # EmptyName)
            ELSE EmptyLabel

\* addNextTransition(prevStateIndex, prevAlphabetIndex)
addNextTransition(self, prevStateIndex, prevAlphabetIndex) ==
    LET state == At(self.dfa.states, self.state_index)
        symbol == At(self.dfa.alphabet, self.alphabet_index)
        row == IF self.state_index = 0 THEN EmptyLabel ELSE state
        toState == NextTransitionTarget(self, state, symbol)
        dfa == [self.dfa EXCEPT !.transitions[row][symbol] = toState]
        written == [mutateWorking(self, dfa) EXCEPT
                        !.alphabet_index = self.alphabet_index + 1]
    IN pushStep(written, cloneWorking(written),
                [type |-> "add_transition", fromState |-> state,
                 toState |-> dfa.transitions[state][symbol], symbol |-> symbol,
                 prevStateIndex |-> prevStateIndex,
                 prevAlphabetIndex |-> prevAlphabetIndex])

\* deleteNextUnreachableState()
deleteNextUnreachableState(self) ==
    LET stateToDelete == Head(self.unreachableStates.list)
        shifted == [self EXCEPT
                        !.unreachableStates = Computed(Tail(self.unreachableStates.list))]
        pushed == pushStep(shifted, cloneWorking(shifted),
                           [type |-> "delete_state", state |-> stateToDelete,
                            transitions |->
                               IF stateToDelete \in DOMAIN self.dfa.transitions
                               THEN self.dfa.transitions[stateToDelete] ELSE Undefined])
    IN returnLastStep(mutateWorking(pushed, removeState(self.dfa, stateToDelete)))

\* A merge that takes the last pair of the pending list instead of the first.
mergeLastRedundantStates(self) ==
    LET list == self.redundantStates.list
        pairToMerge == list[Len(list)]
        popped == [self EXCEPT !.redundantStates = Computed(SubSeq(list, 1, Len(list) - 1))]
        pushed == pushStep(popped, cloneWorking(popped),
                           [type |-> "merge_states", states |-> pairToMerge])
    IN returnLastStep(mutateWorking(pushed,
                                    mergeStates(self.dfa, pairToMerge[1], pairToMerge[2])))

\* mergeNextRedundantStates()
mergeNextRedundantStates(self) ==
    LET pairToMerge == Head(self.redundantStates.list)
        shifted == [self EXCEPT
                        !.redundantStates = Computed(Tail(self.redundantStates.list))]
        pushed == pushStep(shifted, cloneWorking(shifted),
                           [type |-> "merge_states", states |-> pairToMerge])
    IN returnLastStep(mutateWorking(pushed,
                                    mergeStates(self.dfa, pairToMerge[1], pairToMerge[2])))

\* An index adjustment that skips a state on every wrap.
adjustIndicesSkipping(self) ==
    IF self.dfa # Undefined /\ self.alphabet_index = Len(self.dfa.alphabet)
    THEN [self EXCEPT !.state_index = self.state_index + 2, !.alphabet_index = 0]
    ELSE self

\* stepForward's adjustment of the alphabet and state indices.
adjustIndices(self) ==
    IF self.dfa # Undefined /\ self.alphabet_index = Len(self.dfa.alphabet)
    THEN [self EXCEPT !.state_index = self.state_index + 1, !.alphabet_index = 0]
    ELSE self

\* stepForward()
stepForward(self) ==
    LET prevStateIndex == self.state_index
        prevAlphabetIndex == self.alphabet_index
        next == getNextStep(adjustIndices(self))
    IN CASE next.kind = "initialize" -> initializeDFA(next.self)
         [] next.kind = "add_transition" ->
                addNextTransition(next.self, prevStateIndex, prevAlphabetIndex)
         [] next.kind = "delete_state" -> deleteNextUnreachableState(next.self)
         [] next.kind = "merge_states" -> mergeNextRedundantStates(next.self)
         [] OTHER -> [next.self EXCEPT !.ret = EmptyResult]

\* An undo that puts a state or a pair back at the end of its pending list.
undoLastStepAtEnd(self) ==
    LET last == self.steps[Len(self.steps)]
        prevDFA == last.dfa
        prevStep == last.step
        prevRef == self.stepRefs[Len(self.stepRefs)]
        popped == [self EXCEPT !.steps = SubSeq(self.steps, 1, Len(self.steps) - 1),
                               !.stepRefs = SubSeq(self.stepRefs, 1, Len(self.stepRefs) - 1),
                               !.ret = last]
    IN CASE prevStep.type = "initialize" ->
               [popped EXCEPT !.dfa = Undefined, !.dfaRef = NoObject,
                              !.steps = <<>>, !.stepRefs = <<>>, !.state_index = 0,
                              !.alphabet_index = 0, !.unreachableStates = NotComputed]
         [] prevStep.type = "add_transition" ->
               [popped EXCEPT !.state_index = prevStep.prevStateIndex,
                              !.alphabet_index = prevStep.prevAlphabetIndex,
                              !.dfa = prevDFA, !.dfaRef = prevRef]
         [] prevStep.type = "delete_state" ->
               [popped EXCEPT !.unreachableStates =
                                   Computed(Append(self.unreachableStates.list, prevStep.state)),
                              !.dfa = prevDFA, !.dfaRef = prevRef]
         [] prevStep.type = "merge_states" ->
               [popped EXCEPT !.redundantStates =
                                   Computed(Append(self.redundantStates.list, prevStep.states)),
                              !.dfa = prevDFA, !.dfaRef = prevRef]

\* An undo that leaves the indices of an undone add_transition where they are.
undoLastStepKeepingIndices(self) ==
    LET last == self.steps[Len(self.steps)]
        prevDFA == last.dfa
        prevStep == last.step
        prevRef == self.stepRefs[Len(self.stepRefs)]
        popped == [self EXCEPT !.steps = SubSeq(self.steps, 1, Len(self.steps) - 1),
                               !.stepRefs = SubSeq(self.stepRefs, 1, Len(self.stepRefs) - 1),
                               !.ret = last]
    IN CASE prevStep.type = "initialize" ->
               [popped EXCEPT !.dfa = Undefined, !.dfaRef = NoObject,
                              !.steps = <<>>, !.stepRefs = <<>>, !.state_index = 0,
                              !.alphabet_index = 0, !.unreachableStates = NotComputed]
         [] prevStep.type = "add_transition" ->
               [popped EXCEPT !.dfa = prevDFA, !.dfaRef = prevRef]
         [] prevStep.type = "delete_state" ->
               [popped EXCEPT !.unreachableStates =
                                   Computed(<<prevStep.state>> \o self.unreachableStates.list),
                              !.dfa = prevDFA, !.dfaRef = prevRef]
         [] prevStep.type = "merge_states" ->
               [popped EXCEPT !.redundantStates =
                                   Computed(<<prevStep.states>> \o self.redundantStates.list),
                              !.dfa = prevDFA, !.dfaRef = prevRef]

\* stepBackward() on a non-empty history: pops the last step and undoes it.
undoLastStep(self) ==
    LET last == self.steps[Len(self.steps)]
        prevDFA == last.dfa
        prevStep == last.step
        prevRef == self.stepRefs[Len(self.stepRefs)]
        popped == [self EXCEPT !.steps = SubSeq(self.steps, 1, Len(self.steps) - 1),
                               !.stepRefs = SubSeq(self.stepRefs, 1, Len(self.stepRefs) - 1),
                               !.ret = last]
    IN CASE prevStep.type = "initialize" ->
               [popped EXCEPT !.dfa = Undefined, !.dfaRef = NoObject,
                              !.steps = <<>>, !.stepRefs = <<>>, !.state_index = 0,
                              !.alphabet_index = 0, !.unreachableStates = NotComputed]
         [] prevStep.type = "add_transition" ->
               [popped EXCEPT !.state_index = prevStep.prevStateIndex,
                              !.alphabet_index = prevStep.prevAlphabetIndex,
                              !.dfa = prevDFA, !.dfaRef = prevRef]
         [] prevStep.type = "delete_state" ->
               [popped EXCEPT !.unreachableStates =
                                   Computed(<<prevStep.state>> \o self.unreachableStates.list),
                              !.dfa = prevDFA, !.dfaRef = prevRef]
         [] prevStep.type = "merge_states" ->
               [popped EXCEPT !.redundantStates =
                                   Computed(<<prevStep.states>> \o self.redundantStates.list),
                              !.dfa = prevDFA, !.dfaRef = prevRef]

\* A stepBackward that rebuilds the converter when there is nothing to undo.
stepBackwardResetting(self) ==
    IF Len(self.steps) = 0 THEN NewConverter(self.nfa) ELSE undoLastStep(self)

\* stepBackward()
stepBackward(self) ==
    IF Len(self.steps) = 0 THEN [self EXCEPT !.ret = Undefined] ELSE undoLastStep(self)

\* complete(): stepForward() until it returns an empty result.
RECURSIVE complete(_)
complete(self) ==
    LET after == stepForward(self)
    IN IF after.ret.dfa = Undefined \/ after.ret.step = Undefined THEN after
       ELSE complete(after)

\* ------------------------------------------------------------ state machine

VARIABLES
    nfa,                \* this.nfa
    dfa,                \* this.dfa
    steps,              \* this.steps
    state_index,        \* this.state_index
    alphabet_index,     \* this.alphabet_index
    unreachableStates,  \* this.unreachableStates
    redundantStates,    \* this.redundantStates
    ret,                \* what the last call returned
    dfaRef,             \* the object this.dfa refers to
    stepRefs,           \* the objects the automata in this.steps refer to
    op,                 \* the last call: "new", "stepForward", "stepBackward", ...
    fresh               \* the last call was complete() on a newly constructed converter

converterVars == <<nfa, dfa, steps, state_index, alphabet_index, unreachableStates,
                   redundantStates, ret, dfaRef, stepRefs, op, fresh>>

\* The other objects of the program: an EventHandler and a DraggableCanvas.
VARIABLES
    eventListeners,     \* EventHandler: this.eventListeners
    invoked,            \* the functions the last dispatchEvent called, in order
    lastCall,           \* the last call on the EventHandler
    panGrabLocation,    \* DraggableCanvas: this.panGrabLocation
    draggingObject,     \* DraggableCanvas: this.draggingObject
    objectLocation,     \* where the movable object on the canvas is
    translation,        \* DraggableCanvas: this.translation
    redrawCanvas,       \* DraggableCanvas: this.redrawCanvas
    cursor,             \* document.body.style.cursor
    lastEvent,          \* the last mouse event delivered and what its handler did
    buttonHeld          \* a mousedown was delivered and no mouseup since

handlerVars == <<eventListeners, invoked, lastCall>>

canvasVars == <<panGrabLocation, draggingObject, objectLocation, translation,
                redrawCanvas, cursor, lastEvent, buttonHeld>>

vars == <<converterVars, handlerVars, canvasVars>>

\* new EventHandler(): no listeners, nothing called yet.
HandlerNew ==
    /\ eventListeners = <<>>
    /\ invoked = <<>>
    /\ lastCall = [op |-> "new", name |-> "", fn |-> ""]

\* The offsets within the canvas a mouse event can carry.
MaxLocation == 3

\* The canvas is panned by less than GRID_SIZE either way (500 in the source).
GRID_SIZE == 2

\* new Location(x, y), along one line.
Location(x) == [x |-> x]

\* new DraggableCanvas(selector) with one movable object added at the first
\* offset: nothing is grabbed or dragged, no mouse event has been delivered.
CanvasNew ==
    /\ panGrabLocation = Undefined
    /\ draggingObject = Undefined
    /\ objectLocation = Location(1)
    /\ translation = 0
    /\ redrawCanvas = TRUE
    /\ cursor = ""
    /\ lastEvent = [type |-> "new", effect |-> "none"]
    /\ buttonHeld = FALSE

\* The converter object in the current state.
Self ==
    [nfa |-> nfa, dfa |-> dfa, steps |-> steps, state_index |-> state_index,
     alphabet_index |-> alphabet_index, unreachableStates |-> unreachableStates,
     redundantStates |-> redundantStates, ret |-> ret,
     dfaRef |-> dfaRef, stepRefs |-> stepRefs]

\* Objects have no names of their own: the live references are renamed in the
\* order steps, then this.dfa, first use first, which keeps who shares an
\* object with whom and nothing else.
Renamed(c) ==
    LET live == c.stepRefs \o <<c.dfaRef>>
        name(r) == IF r = NoObject THEN NoObject
                   ELSE Cardinality({ live[j] : j \in 1..((CHOOSE i \in DOMAIN live :
                                        live[i] = r /\ \A k \in 1..(i - 1) : live[k] # r)) }
                                    \ {NoObject})
    IN [c EXCEPT !.dfaRef = name(c.dfaRef),
                 !.stepRefs = [i \in DOMAIN c.stepRefs |-> name(c.stepRefs[i])]]

\* The converter object becomes c.
Becomes(c) ==
    /\ nfa' = c.nfa
    /\ dfa' = c.dfa
    /\ steps' = c.steps
    /\ state_index' = c.state_index
    /\ alphabet_index' = c.alphabet_index
    /\ unreachableStates' = c.unreachableStates
    /\ redundantStates' = c.redundantStates
    /\ ret' = c.ret
    /\ dfaRef' = Renamed(c).dfaRef
    /\ stepRefs' = Renamed(c).stepRefs

\* The fields of a converter other than the result of the last call.
Fields(c) == [c EXCEPT !.ret = Undefined]

\* new NFAConverter(n)
ConverterNew(n) ==
    /\ nfa = NewConverter(n).nfa
    /\ dfa = NewConverter(n).dfa
    /\ steps = NewConverter(n).steps
    /\ state_index = NewConverter(n).state_index
    /\ alphabet_index = NewConverter(n).alphabet_index
    /\ unreachableStates = NewConverter(n).unreachableStates
    /\ redundantStates = NewConverter(n).redundantStates
    /\ ret = NewConverter(n).ret
    /\ dfaRef = NewConverter(n).dfaRef
    /\ stepRefs = NewConverter(n).stepRefs
    /\ op = "new"
    /\ fresh = FALSE

Init ==
    /\ \E n \in NFAs : ConverterNew(n)
    /\ HandlerNew
    /\ CanvasNew

StepForward ==
    /\ Becomes(stepForward(Self))
    /\ op' = "stepForward"
    /\ fresh' = FALSE
    /\ UNCHANGED <<handlerVars, canvasVars>>

StepBackward ==
    /\ Becomes(stepBackward(Self))
    /\ op' = "stepBackward"
    /\ fresh' = FALSE
    /\ UNCHANGED <<handlerVars, canvasVars>>

GetNextStep ==
    /\ LET next == getNextStep(Self)
       IN Becomes([next.self EXCEPT !.ret = [kind |-> next.kind]])
    /\ op' = "getNextStep"
    /\ fresh' = FALSE
    /\ UNCHANGED <<handlerVars, canvasVars>>

Complete ==
    /\ Becomes(complete(Self))
    /\ op' = "complete"
    /\ fresh' = (Fields(Self) = Fields(NewConverter(nfa)))
    /\ UNCHANGED <<handlerVars, canvasVars>>

Next == StepForward \/ StepBackward \/ GetNextStep \/ Complete

Spec == Init /\ [][Next]_vars

\* ------------------------------------------------------------------ claims

\* The result of a call that performed or undid a step: [snapshot, descriptor].
IsStepResult(r) == r # Undefined /\ r # EmptyResult /\ DOMAIN r = {"dfa", "step"}

\* Every (state, symbol) pair of automaton d has a defined transition.
AllFilled(d) ==
    \A s \in Range(d.states), x \in Range(d.alphabet) :
        s \in DOMAIN d.transitions /\ d.transitions[s][x] # NoTarget

\* C1: in every reachable state, stepForward() followed by stepBackward()
\* restores working, both cursors and both pending queues to the values they
\* had before the stepForward(), whatever kind of step was performed.
RoundTrip ==
    LET forward == stepForward(Self)
        back == stepBackward(forward)
    IN IsStepResult(forward.ret) =>
        /\ back.dfa = dfa
        /\ back.state_index = state_index
        /\ back.alphabet_index = alphabet_index
        /\ back.unreachableStates = unreachableStates
        /\ back.redundantStates = redundantStates

\* The input strings: every string over the alphabet of at most MaxLen symbols.
Strings == UNION { [1..n -> Range(NFAAlphabet)] : n \in 0..MaxLen }

\* The states NFA n can be in after reading w from the states in S.
RECURSIVE NFARun(_, _, _)
NFARun(n, S, w) ==
    IF w = <<>> THEN S
    ELSE NFARun(n,
                EpsClosure(n, { e[3] : e \in { e \in n.edges : e[1] \in S /\ e[2] = Head(w) } }),
                Tail(w))

\* NFA n accepts w.
NFAAccepts(n, w) ==
    NFARun(n, EpsClosure(n, {n.startState}), w) \cap n.acceptStates # {}

\* The state automaton d is in after reading w from state s; NoTarget when a
\* state on the way is not in d or has no transition for the symbol.
RECURSIVE DFARun(_, _, _)
DFARun(d, s, w) ==
    IF s \notin Range(d.states) \/ s \notin DOMAIN d.transitions THEN NoTarget
    ELSE IF w = <<>> THEN s
    ELSE DFARun(d, d.transitions[s][Head(w)], Tail(w))

\* Automaton d accepts w.
DFAAccepts(d, w) == Includes(d.acceptStates, DFARun(d, d.startState, w))

\* The last call was a stepForward() that performed a step of the given kind.
JustStepped(kind) == op = "stepForward" /\ IsStepResult(ret) /\ ret.step.type = kind

\* C2: the automaton left in working by complete(), and the one left by every
\* single delete_state or merge_states step, accepts exactly the strings (of
\* at most MaxLen symbols) that the source NFA accepts.
LanguagePreserved ==
    (op = "complete" \/ JustStepped("delete_state") \/ JustStepped("merge_states")) =>
        \A w \in Strings : DFAAccepts(dfa, w) <=> NFAAccepts(nfa, w)

\* A merge_states step has just followed delete_state steps, on an NFA that
\* accepts some of the strings and rejects others.
LanguagePreservedWitness ==
    /\ JustStepped("merge_states")
    /\ \E i \in DOMAIN steps : steps[i].step.type = "delete_state"
    /\ \E w \in Strings : NFAAccepts(nfa, w) /\ Len(w) = MaxLen
    /\ \E w \in Strings : ~NFAAccepts(nfa, w) /\ Len(w) = MaxLen
    /\ Len(dfa.states) >= 2

\* C3: the snapshot that stepForward() returns and logs is the new automaton:
\* it equals working after the action, for every kind of step.
ForwardSnapshotIsWorking ==
    (op = "stepForward" /\ IsStepResult(ret)) =>
        /\ ret.dfa = dfa
        /\ steps[Len(steps)] = ret

\* The conversion of converter c is done: all transitions are filled (and the
\* cursors are past the last (state, symbol) pair), no unreachable state is
\* pending and no redundant pair is pending.
ConversionDone(c) ==
    /\ c.dfa # Undefined
    /\ AllFilled(c.dfa)
    /\ c.state_index * Len(c.dfa.alphabet) + c.alphabet_index
            >= Len(c.dfa.states) * Len(c.dfa.alphabet)
    /\ IF c.unreachableStates.computed THEN c.unreachableStates.list = <<>>
       ELSE getUnreachableStates(c) = <<>>
    /\ IF c.redundantStates.computed THEN c.redundantStates.list = <<>>
       ELSE getRedundantStates(c) = <<>>

\* C4: stepForward() on a finished conversion returns an empty result,
\* appends nothing to the history and leaves working, both cursors and both
\* pending queues unchanged, on the first such call as on every later one.
ForwardWhenDoneChangesNothing ==
    ConversionDone(Self) =>
        LET forward == stepForward(Self)
        IN /\ forward.ret = EmptyResult
           /\ forward.steps = steps
           /\ forward.dfa = dfa
           /\ forward.state_index = state_index
           /\ forward.alphabet_index = alphabet_index
           /\ forward.unreachableStates = unreachableStates
           /\ forward.redundantStates = redundantStates

\* C5: undoing the initialize step leaves the converter as a newly
\* constructed one: working absent, history empty, both cursors 0 and both
\* pending queues uncomputed.
UndoInitializeIsNew ==
    (op = "stepBackward" /\ IsStepResult(ret) /\ ret.step.type = "initialize") =>
        Fields(Self) = Fields(NewConverter(nfa))

\* C6: stepBackward() on an empty history returns an empty result and leaves
\* working, the history, both cursors and both pending queues unchanged.
BackwardOnEmptyHistoryChangesNothing ==
    [][(Len(steps) = 0 /\ op' = "stepBackward") =>
            /\ ret' = Undefined
            /\ UNCHANGED <<dfa, steps, state_index, alphabet_index,
                           unreachableStates, redundantStates>>]_vars

\* stepBackward() was called on an empty history of a converter that had been
\* stepped into the merging phase and back before.
BackwardOnEmptyHistoryWitness ==
    /\ op = "stepBackward"
    /\ ret = Undefined
    /\ Len(steps) = 0
    /\ redundantStates.computed

\* complete() has just run on a newly constructed converter.
CompletedFresh == op = "complete" /\ fresh

\* C7: after complete() on a new converter, every retained state other than
\* the start state has an incoming transition from a distinct retained state.
UnreachableFreeAfterComplete ==
    CompletedFresh =>
        \A s \in Range(dfa.states) \ {dfa.startState} :
            \E p \in Range(dfa.states) \ {s}, x \in Range(dfa.alphabet) :
                dfa.transitions[p][x] = s

\* The redundancy predicate: both accept or both non-accept, and for every
\* symbol each state's transition target is itself or the other state.
Redundant(d, s1, s2) ==
    /\ s1 # s2
    /\ (Includes(d.acceptStates, s1) <=> Includes(d.acceptStates, s2))
    /\ \A x \in Range(d.alphabet) :
        /\ d.transitions[s1][x] \in {s1, s2}
        /\ d.transitions[s2][x] \in {s1, s2}

\* C8: after complete() on a new converter, no two distinct retained states
\* are a redundant pair.
NoRedundantPairsAfterComplete ==
    CompletedFresh =>
        \A s1 \in Range(dfa.states), s2 \in Range(dfa.states) : ~Redundant(dfa, s1, s2)

\* complete() on a new converter merged two pairs and left at least two states.
NoRedundantPairsWitness ==
    /\ CompletedFresh
    /\ Cardinality({ i \in DOMAIN steps : steps[i].step.type = "merge_states" }) >= 2
    /\ Len(dfa.states) >= 2

\* C9: after complete() on a new converter, every (state, symbol) pair of
\* working has exactly one defined destination.
TotalAfterComplete ==
    CompletedFresh =>
        \A s \in Range(dfa.states), x \in Range(dfa.alphabet) :
            /\ s \in DOMAIN dfa.transitions
            /\ x \in DOMAIN dfa.transitions[s]
            /\ dfa.transitions[s][x] # NoTarget

\* complete() on a new converter kept the last state of the powerset, the one
\* whose transitions are generated last.
TotalAfterCompleteWitness ==
    /\ CompletedFresh
    /\ Includes(dfa.states, NFAStateNames)
    /\ Len(dfa.states) >= 3

\* C10: whenever working exists and some (state, symbol) pair of it has no
\* defined transition, getNextStep() returns add_transition.
UnfilledMeansAddTransition ==
    (dfa # Undefined /\ ~AllFilled(dfa)) => getNextStep(Self).kind = "add_transition"

\* getNextStep() returned add_transition on an automaton with an unfilled
\* pair, after the steps had been undone down to the initialize step (the
\* cursors are back at 0 while working still holds the first transition).
UnfilledMeansAddTransitionWitness ==
    /\ op = "getNextStep"
    /\ ret = [kind |-> "add_transition"]
    /\ dfa # Undefined
    /\ ~AllFilled(dfa)
    /\ state_index = 0
    /\ alphabet_index = 0
    /\ dfa.transitions[EmptyLabel][NFAAlphabet[1]] # NoTarget

\* The smaller of two numbers.
Min(a, b) == IF a < b THEN a ELSE b

\* C11: a step that stays in the history is never changed by a later call,
\* whatever that call does to this.dfa, and this.dfa is never the same object
\* as the automaton of a step still in the history.
SnapshotsIndependent ==
    [][/\ \A i \in 1..Min(Len(steps), Len(steps')) : steps'[i] = steps[i]
       /\ dfa' # Undefined => dfaRef' \notin Range(stepRefs')]_vars

\* A transition was written into this.dfa after an undo had made this.dfa an
\* object that had been in the history: the pending list of redundant pairs
\* is computed, so the conversion had gone past the transitions before.
SnapshotsIndependentWitness ==
    /\ JustStepped("add_transition")
    /\ redundantStates.computed
    /\ Len(steps) > 2

\* The number of steps of the given kind in history h.
Count(h, kind) == Cardinality({ i \in DOMAIN h : h[i].step.type = kind })

\* 2 to the power k: the number of sets of k NFA states.
RECURSIVE TwoToThe(_)
TwoToThe(k) == IF k = 0 THEN 1 ELSE 2 * TwoToThe(k - 1)

\* C12: complete() on a new converter ends, with stepForward() returning an
\* empty result, after at most 1 + (sets of NFA states x symbols) + (sets of
\* NFA states) steps: one initialize, one add_transition for every pair of a
\* state and a symbol, and at most one delete_state or merge_states a state.
CompleteWithinBound ==
    CompletedFresh =>
        LET N == TwoToThe(Len(nfa.states))
            K == Len(nfa.alphabet)
            adds == { i \in DOMAIN steps : steps[i].step.type = "add_transition" }
        IN /\ ret = EmptyResult
           /\ Len(steps) <= 1 + N * K + N
           /\ Count(steps, "initialize") = 1
           /\ Cardinality(adds) = N * K
           /\ { <<steps[i].step.fromState, steps[i].step.symbol>> : i \in adds }
                = Range(steps[1].dfa.states) \X Range(nfa.alphabet)
           /\ Count(steps, "delete_state") + Count(steps, "merge_states") <= N

\* complete() ran on a new converter and needed three steps after the
\* transitions: two deletions and a merge.
CompleteWithinBoundWitness ==
    /\ CompletedFresh
    /\ Count(steps, "delete_state") = 2
    /\ Count(steps, "merge_states") = 1

\* C14: whenever this.dfa exists, every transition of a retained state that
\* has been generated leads to a retained state, and the start state and
\* every accept state are retained states; a state that a delete_state step
\* has just removed is the target of no transition of a retained state.
WellFormed ==
    dfa # Undefined =>
        /\ \A s \in Range(dfa.states), x \in Range(dfa.alphabet) :
              /\ s \in DOMAIN dfa.transitions
              /\ dfa.transitions[s][x] = NoTarget \/ dfa.transitions[s][x] \in Range(dfa.states)
        /\ dfa.startState \in Range(dfa.states)
        /\ Range(dfa.acceptStates) \subseteq Range(dfa.states)
        /\ JustStepped("delete_state") =>
              /\ ret.step.state \notin Range(dfa.states)
              /\ \A s \in Range(dfa.states), x \in Range(dfa.alphabet) :
                    dfa.transitions[s][x] # ret.step.state

\* A delete_state step has just removed a state that another state had a
\* transition to when the transitions were generated: it became unreachable
\* only when the states leading to it were removed.
WellFormedWitness ==
    /\ JustStepped("delete_state")
    /\ \E i \in DOMAIN steps :
          /\ steps[i].step.type = "add_transition"
          /\ steps[i].step.toState = ret.step.state
          /\ steps[i].step.fromState # ret.step.state

\* C15: between calls alphabet_index is an index into the alphabet,
\* 0 <= alphabet_index < |alphabet|, and when the next step is an
\* add_transition it writes the transition of the state at state_index for
\* the symbol at alphabet_index.
CursorInRange ==
    /\ 0 <= alphabet_index
    /\ alphabet_index < Len(nfa.alphabet)
    /\ LET forward == stepForward(Self)
       IN (IsStepResult(forward.ret) /\ forward.ret.step.type = "add_transition") =>
            /\ forward.ret.step.fromState = At(dfa.states, state_index)
            /\ forward.ret.step.symbol = At(dfa.alphabet, alphabet_index)

\* The transition of the state for the symbol in the automaton of NFA n: Ø
\* for the state Ø, else the members of the state's label followed on the
\* symbol, sorted, without Ø unless nothing else is reached.
ExpectedTarget(n, state, symbol) ==
    IF state = EmptyLabel THEN EmptyLabel
    ELSE LET reached == UNION { Range(getReachableStates(n, m, symbol)) : m \in Range(state) }
         IN IF reached \ {EmptyName} = {} THEN EmptyLabel
            ELSE SortedDistinct(SetToSeq(reached \ {EmptyName}))

\* The automaton of NFA n with every transition generated.
Filled(n) ==
    LET initial == initializeDFA(NewConverter(n)).dfa
    IN [initial EXCEPT !.transitions =
            [s \in Range(initial.states) |->
                [x \in Range(initial.alphabet) |-> ExpectedTarget(n, s, x)]]]

\* The list of unreachable states as first computed: on the automaton with
\* every transition generated.
OriginalUnreachable(filled) == getUnreachableStatesRec(filled, <<>>)

\* The list of redundant pairs as first computed: on the automaton left when
\* the unreachable states are deleted.
OriginalRedundant(filled, unreachable) ==
    getRedundantStatesRec(removeStates(filled, unreachable), <<>>)

\* What the steps of the given kind in history h removed, in history order.
Taken(h, kind) ==
    LET chosen == SelectSeq(h, LAMBDA e : e.step.type = kind)
    IN [i \in DOMAIN chosen |->
            IF kind = "delete_state" THEN chosen[i].step.state ELSE chosen[i].step.states]

\* C16: once the list of unreachable states is computed, the states of the
\* delete_state steps in the history followed by the pending list are the
\* list as first computed, in every reachable state; likewise the pairs of
\* the merge_states steps followed by the pending pairs.
QueuesConserved ==
    (unreachableStates.computed \/ redundantStates.computed) =>
        LET filled == Filled(nfa)
            unreachable == OriginalUnreachable(filled)
        IN /\ unreachableStates.computed =>
                 Taken(steps, "delete_state") \o unreachableStates.list = unreachable
           /\ redundantStates.computed =>
                 Taken(steps, "merge_states") \o redundantStates.list
                    = OriginalRedundant(filled, unreachable)

\* A delete_state step has just been undone with another one still in the
\* history, and a state and pairs are pending: the conversion
\* had gone on to the merges and has been stepped back.
QueuesConservedWitness ==
    /\ op = "stepBackward"
    /\ IsStepResult(ret)
    /\ ret.step.type = "delete_state"
    /\ Count(steps, "delete_state") = 1
    /\ Len(unreachableStates.list) = 1
    /\ redundantStates.computed
    /\ Len(redundantStates.list) > 0

\* C17: the pair a merge_states step merges is a redundant pair of this.dfa
\* as it is when the step is taken: two distinct states of it, both accept
\* or both non-accept, each leading on every symbol to itself or the other.
MergedPairsRedundant ==
    [][JustStepped("merge_states")' =>
            LET pair == ret'.step.states
            IN /\ pair[1] \in Range(dfa.states)
               /\ pair[2] \in Range(dfa.states)
               /\ Redundant(dfa, pair[1], pair[2])]_vars

\* A merge_states step has just merged a pair that was not redundant before
\* an earlier merge of the same conversion.
MergedPairsRedundantWitness ==
    /\ JustStepped("merge_states")
    /\ \E i \in 1..(Len(steps) - 1) :
          /\ steps[i].step.type = "merge_states"
          /\ ~Redundant(steps[i].dfa, ret.step.states[1], ret.step.states[2])

\* The place of a kind of step in the order of the phases.
PhaseOf(kind) ==
    CASE kind = "initialize" -> 1
      [] kind = "add_transition" -> 2
      [] kind = "delete_state" -> 3
      [] kind = "merge_states" -> 4

\* C18: the kinds of the steps in the history are, in order, one initialize,
\* then add_transition steps, then delete_state steps, then merge_states
\* steps, in every reachable state.
PhasesOrdered ==
    /\ Len(steps) > 0 => steps[1].step.type = "initialize"
    /\ \A i \in 2..Len(steps) :
          /\ steps[i].step.type # "initialize"
          /\ PhaseOf(steps[i - 1].step.type) <= PhaseOf(steps[i].step.type)

\* A step has just been undone and the history still holds steps of all
\* four kinds.
PhasesOrderedWitness ==
    /\ op = "stepBackward"
    /\ IsStepResult(ret)
    /\ Count(steps, "add_transition") > 0
    /\ Count(steps, "delete_state") > 0
    /\ Count(steps, "merge_states") > 0

\* C19: an add_transition step takes the state and the symbol the indices
\* stand at (a symbol index at the end of the alphabet standing for the first
\* symbol of the next state) and writes as the transition Ø for the state Ø,
\* else the sorted union of the states reachable on the symbol from the
\* members of the state's label, without Ø unless nothing else is reached;
\* it changes nothing else of this.dfa.
AddTransitionResult ==
    [][JustStepped("add_transition")' =>
            LET K == Len(dfa.alphabet)
                position == state_index * K + alphabet_index
                state == At(dfa.states, position \div K)
                symbol == At(dfa.alphabet, position % K)
                target == ExpectedTarget(nfa, state, symbol)
            IN /\ ret'.step.fromState = state
               /\ ret'.step.symbol = symbol
               /\ ret'.step.toState = target
               /\ dfa' = [dfa EXCEPT !.transitions[state][symbol] = target]]_vars

\* An add_transition step has just written a transition to a real state for
\* a state of two members, one of which reaches nothing on the symbol.
AddTransitionResultWitness ==
    /\ JustStepped("add_transition")
    /\ Len(ret.step.fromState) = 2
    /\ ret.step.toState # EmptyLabel
    /\ \E m \in Range(ret.step.fromState) :
          getReachableStates(nfa, m, ret.step.symbol) = <<EmptyName>>

\* The label of a set of NFA states: its members sorted, Ø for the empty set.
LabelOf(S) == IF S = {} THEN EmptyLabel ELSE SortedDistinct(SetToSeq(S))

\* C20: after the initialize step the states of this.dfa are the labels of
\* the sets of NFA states, each once; no transition is generated yet; the
\* start state is the label of the epsilon closure of the NFA start state and
\* is one of the states; the accept states are the labels of the sets that
\* hold an accept state of the NFA.
InitializeResult ==
    JustStepped("initialize") =>
        LET subsets == SUBSET Range(nfa.states)
        IN /\ Range(dfa.states) = { LabelOf(S) : S \in subsets }
           /\ Len(dfa.states) = Cardinality(subsets)
           /\ dfa.alphabet = nfa.alphabet
           /\ DOMAIN dfa.transitions = Range(dfa.states)
           /\ \A s \in Range(dfa.states), x \in Range(dfa.alphabet) :
                 dfa.transitions[s][x] = NoTarget
           /\ dfa.startState = LabelOf(getEpsilonClosureStates(nfa, nfa.startState))
           /\ dfa.startState \in Range(dfa.states)
           /\ Range(dfa.acceptStates)
                = { LabelOf(S) : S \in { S \in subsets : S \cap nfa.acceptStates # {} } }
           /\ Len(dfa.acceptStates) = Cardinality(Range(dfa.acceptStates))

\* The initialize step has just run on an NFA whose start state has an
\* epsilon transition to the other state and that has one accept state.
InitializeResultWitness ==
    /\ JustStepped("initialize")
    /\ Len(dfa.startState) = 2
    /\ Cardinality(nfa.acceptStates) = 1

\* C21: in every reachable state the kind getNextStep() returns is the
\* kind of the step a stepForward() called right after it performs, and that
\* stepForward() returns an empty result exactly when getNextStep() returned
\* no kind.
NextStepIsPerformed ==
    LET next == getNextStep(Self)
        forward == stepForward(next.self)
    IN /\ next.kind = "none" <=> forward.ret = EmptyResult
       /\ next.kind # "none" =>
             /\ IsStepResult(forward.ret)
             /\ forward.ret.step.type = next.kind

\* C22: in every reachable state the history is a prefix of the history
\* complete() produces on a new converter for the same NFA, and a complete()
\* from any reachable state ends with that history and that automaton.
ReplayConsistent ==
    LET full == complete(NewConverter(nfa))
    IN /\ Len(steps) <= Len(full.steps)
       /\ steps = SubSeq(full.steps, 1, Len(steps))
       /\ op = "complete" => (steps = full.steps /\ dfa = full.dfa)

\* complete() has just run on a converter that was not new and it ended with
\* deletions and merges in the history.
ReplayConsistentWitness ==
    /\ op = "complete"
    /\ ~fresh
    /\ Count(steps, "delete_state") > 0
    /\ Count(steps, "merge_states") > 0

\* ------------------------------------------------------------ EventHandler

\* The listeners an EventHandler holds at most.
MaxListeners == 3

\* The event names and the functions registered as listeners.
EventNames == {"mousedown", "rightclick"}

Functions == {"f", "g", "h"}

\* addEventListener(name, fn)
addEventListener(listeners, name, fn) == Append(listeners, [name |-> name, fn |-> fn])

\* updateEventListener(name, fn): findIndex gives the first listener of that
\* name, splice removes that one, and the new listener is added at the end.
updateEventListener(listeners, name, fn) ==
    LET named == { i \in DOMAIN listeners : listeners[i].name = name }
        index == CHOOSE i \in named : \A j \in named : i <= j
        spliced == IF named # {}
                   THEN SubSeq(listeners, 1, index - 1)
                            \o SubSeq(listeners, index + 1, Len(listeners))
                   ELSE listeners
    IN addEventListener(spliced, name, fn)

\* dispatchEvent(name, event): the functions called, in order.
dispatchEvent(listeners, name) ==
    LET named == SelectSeq(listeners, LAMBDA e : e.name = name)
    IN [i \in DOMAIN named |-> named[i].fn]

AddEventListener ==
    /\ Len(eventListeners) < MaxListeners
    /\ \E name \in EventNames, fn \in Functions :
          /\ eventListeners' = addEventListener(eventListeners, name, fn)
          /\ lastCall' = [op |-> "addEventListener", name |-> name, fn |-> fn]
    /\ invoked' = <<>>
    /\ UNCHANGED <<converterVars, canvasVars>>

UpdateEventListener ==
    /\ \E name \in EventNames, fn \in Functions :
          /\ Len(updateEventListener(eventListeners, name, fn)) <= MaxListeners
          /\ eventListeners' = updateEventListener(eventListeners, name, fn)
          /\ lastCall' = [op |-> "updateEventListener", name |-> name, fn |-> fn]
    /\ invoked' = <<>>
    /\ UNCHANGED <<converterVars, canvasVars>>

DispatchEvent ==
    /\ \E name \in EventNames :
          /\ invoked' = dispatchEvent(eventListeners, name)
          /\ lastCall' = [op |-> "dispatchEvent", name |-> name, fn |-> ""]
    /\ UNCHANGED <<eventListeners, converterVars, canvasVars>>

\* An EventHandler on its own: the converter and the canvas are not used.
HandlerInit ==
    /\ ConverterNew(CHOOSE n \in NFAs : n.edges = {} /\ n.acceptStates = {})
    /\ HandlerNew
    /\ CanvasNew

HandlerNext == AddEventListener \/ UpdateEventListener \/ DispatchEvent

HandlerSpec == HandlerInit /\ [][HandlerNext]_vars

\* C23: after updateEventListener(name, fn), whatever was registered before,
\* dispatchEvent(name, e) calls fn and calls no function other than fn (so
\* none that was registered for name before the call), and what it calls
\* for any other name is as it was before the call.
UpdateReplacesListeners ==
    [][lastCall'.op = "updateEventListener" =>
            LET called == dispatchEvent(eventListeners', lastCall'.name)
            IN /\ lastCall'.fn \in Range(called)
               /\ \A fn \in Range(called) : fn = lastCall'.fn
               /\ \A other \in EventNames \ {lastCall'.name} :
                     dispatchEvent(eventListeners', other)
                        = dispatchEvent(eventListeners, other)]_vars

\* ---------------------------------------------------------- DraggableCanvas

\* The one object on the canvas; it has a move function.
MovableObject == [object |-> "movable"]

\* The mouse buttons: 0 is the main button.
Buttons == {0, 2}

\* The offsets (e.offsetX) of mouse events.
Offsets == 1..MaxLocation

\* normalizeLocation(loc) at scale 1: the offset less the translation.
normalizeLocation(offset) == Location(offset - translation)

\* getObjectAt(loc): the object that touches loc, undefined when none does.
getObjectAt(loc) == IF loc = objectLocation THEN MovableObject ELSE Undefined

\* pan(x, y): the translation after panning by x, kept within GRID_SIZE.
pan(x) ==
    IF (IF translation + x < 0 THEN 0 - (translation + x) ELSE translation + x) < GRID_SIZE
    THEN translation + x
    ELSE translation

\* The mousedown listener: the main button on an object starts dragging it,
\* anywhere else it grabs the canvas for panning; other buttons do nothing.
Mousedown ==
    \E button \in Buttons, offset \in Offsets :
        /\ IF button # 0
           THEN UNCHANGED <<panGrabLocation, draggingObject, cursor, buttonHeld>>
           ELSE LET loc == normalizeLocation(offset)
                    obj == getObjectAt(loc)
                IN /\ IF obj # Undefined
                      THEN /\ draggingObject' = obj
                           /\ UNCHANGED panGrabLocation
                      ELSE /\ panGrabLocation' = loc
                           /\ UNCHANGED draggingObject
                   /\ cursor' = "grabbing"
                   /\ buttonHeld' = TRUE
        /\ lastEvent' = [type |-> "mousedown", effect |-> "none"]
        /\ UNCHANGED <<objectLocation, translation, redrawCanvas,
                       converterVars, handlerVars>>

\* The mousemove listener: pans a grabbed canvas, else moves a dragged object.
Mousemove ==
    \E offset \in Offsets :
        LET loc == normalizeLocation(offset)
        IN /\ IF panGrabLocation # Undefined
              THEN /\ translation' = pan(loc.x - panGrabLocation.x)
                   /\ redrawCanvas' = TRUE
                   /\ lastEvent' = [type |-> "mousemove", effect |-> "pan"]
                   /\ UNCHANGED objectLocation
              ELSE IF draggingObject # Undefined
              THEN /\ objectLocation' = loc
                   /\ redrawCanvas' = TRUE
                   /\ lastEvent' = [type |-> "mousemove", effect |-> "move"]
                   /\ UNCHANGED translation
              ELSE /\ lastEvent' = [type |-> "mousemove", effect |-> "none"]
                   /\ UNCHANGED <<objectLocation, translation, redrawCanvas>>
           /\ UNCHANGED <<panGrabLocation, draggingObject, cursor, buttonHeld,
                          converterVars, handlerVars>>

\* The mouseup listener: releases a grabbed canvas, else drops a dragged
\* object where the mouse is.
Mouseup ==
    \E offset \in Offsets :
        LET loc == normalizeLocation(offset)
        IN /\ IF panGrabLocation # Undefined
              THEN /\ redrawCanvas' = TRUE
                   /\ panGrabLocation' = Undefined
                   /\ cursor' = "auto"
                   /\ UNCHANGED <<draggingObject, objectLocation>>
              ELSE IF draggingObject # Undefined
              THEN /\ objectLocation' = loc
                   /\ redrawCanvas' = TRUE
                   /\ draggingObject' = Undefined
                   /\ cursor' = "auto"
                   /\ UNCHANGED panGrabLocation
              ELSE UNCHANGED <<panGrabLocation, draggingObject, objectLocation,
                               redrawCanvas, cursor>>
           /\ lastEvent' = [type |-> "mouseup", effect |-> "none"]
           /\ buttonHeld' = FALSE
           /\ UNCHANGED <<translation, converterVars, handlerVars>>

\* draw(): redraws when something has changed and clears the flag.
Draw ==
    /\ redrawCanvas
    /\ redrawCanvas' = FALSE
    /\ UNCHANGED <<panGrabLocation, draggingObject, objectLocation, translation,
                   cursor, lastEvent, buttonHeld, converterVars, handlerVars>>

\* A DraggableCanvas on its own: the converter is not used and nothing
\* listens to the events the canvas dispatches.
CanvasInit ==
    /\ ConverterNew(CHOOSE n \in NFAs : n.edges = {} /\ n.acceptStates = {})
    /\ HandlerNew
    /\ CanvasNew

CanvasNext == Mousedown \/ Mousemove \/ Mouseup \/ Draw

CanvasSpec == CanvasInit /\ [][CanvasNext]_vars

\* C24: whatever mouse events are delivered, panGrabLocation and
\* draggingObject are never both set, neither is set after a mouseup, and a
\* mousemove pans the canvas or moves an object only when a mousedown of the
\* main button came before it with no mouseup since.
GrabOrDragNotBoth ==
    /\ ~(panGrabLocation # Undefined /\ draggingObject # Undefined)
    /\ lastEvent.type = "mouseup" =>
          (panGrabLocation = Undefined /\ draggingObject = Undefined)
    /\ (lastEvent.type = "mousemove" /\ lastEvent.effect # "none") => buttonHeld

====
